---- MODULE Spec2Model ----
(***************************************************************************)
(* A model of cnpy (src/cnpy.h, src/cnpy.cpp): the npy header codec, the   *)
(* flat-file save/append/load operations, the NpArray container and the    *)
(* npz archive operations built on the zip container library.              *)
(*                                                                         *)
(* Bytes are integers 0..255.  Text is a sequence of bytes; positions in   *)
(* the string helpers are 0-based, as in the C++ code.  A std::string::npos*)
(* that the code stores in an int is the value -1 (so npos+16 is 15).      *)
(* The host is little-endian (BigEndianTest returns '<').                  *)
(***************************************************************************)
EXTENDS Integers, Sequences, FiniteSets, TLC

\* ------------------------------------------------------------------ bounds
\* Largest rank of a shape handed to the header encoder alone.
MaxRank == 5
\* Largest number of npy_save_data calls on the flat file since it was last absent.
MaxCalls == 2
\* Number of NpArray instances of the array machine.
MaxObjs == 2

\* ------------------------------------------------------------ text and bytes
Ord ==
    (" " :> 32) @@ ("'" :> 39) @@ ("(" :> 40) @@ (")" :> 41) @@ ("," :> 44) @@
    ("." :> 46) @@ (":" :> 58) @@ ("<" :> 60) @@ (">" :> 62) @@ ("?" :> 63) @@
    ("|" :> 124) @@ ("{" :> 123) @@ ("}" :> 125) @@ ("_" :> 95) @@ ("0" :> 48) @@
    ("1" :> 49) @@ ("2" :> 50) @@ ("3" :> 51) @@ ("4" :> 52) @@ ("5" :> 53) @@
    ("6" :> 54) @@ ("7" :> 55) @@ ("8" :> 56) @@ ("9" :> 57) @@ ("a" :> 97) @@
    ("b" :> 98) @@ ("c" :> 99) @@ ("d" :> 100) @@ ("e" :> 101) @@ ("f" :> 102) @@
    ("g" :> 103) @@ ("h" :> 104) @@ ("i" :> 105) @@ ("j" :> 106) @@ ("k" :> 107) @@
    ("l" :> 108) @@ ("m" :> 109) @@ ("n" :> 110) @@ ("o" :> 111) @@ ("p" :> 112) @@
    ("q" :> 113) @@ ("r" :> 114) @@ ("s" :> 115) @@ ("t" :> 116) @@ ("u" :> 117) @@
    ("v" :> 118) @@ ("w" :> 119) @@ ("x" :> 120) @@ ("y" :> 121) @@ ("z" :> 122) @@
    ("F" :> 70) @@ ("T" :> 84) @@ ("N" :> 78) @@ ("U" :> 85) @@ ("M" :> 77) @@
    ("P" :> 80) @@ ("Y" :> 89) @@ ("+" :> 43) @@ ("-" :> 45) @@ ("\n" :> 10)

\* A string literal of the source, as bytes.
S(t) == [i \in 1..Len(t) |-> Ord[t[i]]]

\* The string literals of the source, as bytes.
kDescrOpen == S(<<"{", "'", "d", "e", "s", "c", "r", "'", ":", " ", "'">>)
kFortranKey ==
    S(<<"'", ",", " ", "'", "f", "o", "r", "t", "r", "a", "n", "_", "o", "r", "d", "e", "r",
        "'", ":", " ">>)
kShapeKey == S(<<",", " ", "'", "s", "h", "a", "p", "e", "'", ":", " ", "(">>)
kDictClose == S(<<")", ",", " ", "}">>)
kCommaSpace == S(<<",", " ">>)
kComma == S(<<",">>)
kFortranOrder == S(<<"f", "o", "r", "t", "r", "a", "n", "_", "o", "r", "d", "e", "r">>)
kTrue == S(<<"T", "r", "u", "e">>)
kFalse == S(<<"F", "a", "l", "s", "e">>)
kDescr == S(<<"d", "e", "s", "c", "r">>)
kOpenParen == S(<<"(">>)
kCloseParen == S(<<")">>)
kQuote == S(<<"'">>)

Spaces(n) == [i \in 1..n |-> 32]

\* std::string::find(pat): the 0-based position of the first occurrence, or npos (-1).
Find(s, pat) ==
    LET hits == {p \in 0..(Len(s) - Len(pat)) :
                    \A k \in 1..Len(pat) : s[p + k] = pat[k]}
    IN  IF hits = {} THEN -1
        ELSE CHOOSE p \in hits : \A q \in hits : p <= q

\* std::string::substr(pos, n) for 0 <= pos <= size; a negative n is npos.
Substr(s, pos, n) ==
    LET last == IF n < 0 \/ pos + n > Len(s) THEN Len(s) ELSE pos + n
    IN  SubSeq(s, pos + 1, last)

\* substr throws std::out_of_range when pos > size (a negative int is a huge size_t).
SubstrThrows(s, pos) == pos < 0 \/ pos > Len(s)

\* std::count(begin, end, ch)
Count(s, ch) == Cardinality({i \in 1..Len(s) : s[i] = ch})

RECURSIVE Digits(_)
Digits(n) == IF n < 10 THEN <<48 + n>> ELSE Digits(n \div 10) \o <<48 + (n % 10)>>

\* tostring(i): the stream insertion of an unsigned integer.
tostring(n) == Digits(n)

IsSpace(c) == c = 32 \/ (c >= 9 /\ c <= 13)
IsDigit(c) == c >= 48 /\ c <= 57

RECURSIVE SkipSpace(_)
SkipSpace(s) == IF s # <<>> /\ IsSpace(Head(s)) THEN SkipSpace(Tail(s)) ELSE s

RECURSIVE DigitRun(_)
DigitRun(s) == IF s # <<>> /\ IsDigit(Head(s)) THEN <<Head(s)>> \o DigitRun(Tail(s)) ELSE <<>>

RECURSIVE DigitsValue(_)
DigitsValue(d) ==
    IF d = <<>> THEN 0 ELSE 10 * DigitsValue(SubSeq(d, 1, Len(d) - 1)) + (d[Len(d)] - 48)

\* std::stoull: skips white space, takes an optional sign and the longest run of
\* digits; without a digit it throws std::invalid_argument.
stoull(s) ==
    LET t == SkipSpace(s)
        u == IF t # <<>> /\ (t[1] = 43 \/ t[1] = 45) THEN Tail(t) ELSE t
        d == DigitRun(u)
    IN  IF d = <<>> THEN [ok |-> FALSE, val |-> 0]
        ELSE [ok |-> TRUE, val |-> DigitsValue(d)]

RECURSIVE Product(_)
Product(shape) == IF shape = <<>> THEN 1 ELSE Head(shape) * Product(Tail(shape))

\* ------------------------------------------------------------------- types
Types ==
    {"Void", "Int8", "Int16", "Int32", "Int64", "Uint8", "Uint16", "Uint32", "Uint64",
     "Float", "Double", "LongDouble", "ComplexFloat", "ComplexDouble",
     "ComplexLongDouble", "Bool"}

SupportedTypes == Types \ {"Void"}

\* sizeof of the C type that type<_Tp>() maps to each Type (x86-64: long double is 16).
SizeOf ==
    ("Int8" :> 1) @@ ("Int16" :> 2) @@ ("Int32" :> 4) @@ ("Int64" :> 8) @@
    ("Uint8" :> 1) @@ ("Uint16" :> 2) @@ ("Uint32" :> 4) @@ ("Uint64" :> 8) @@
    ("Float" :> 4) @@ ("Double" :> 8) @@ ("LongDouble" :> 16) @@
    ("ComplexFloat" :> 8) @@ ("ComplexDouble" :> 16) @@ ("ComplexLongDouble" :> 32) @@
    ("Bool" :> 1) @@ ("Void" :> 1)

BigEndianTest == Ord["<"]

map_type(t) ==
    CASE t \in {"Int8", "Int16", "Int32", "Int64"} -> Ord["i"]
      [] t \in {"Uint8", "Uint16", "Uint32", "Uint64"} -> Ord["u"]
      [] t \in {"Float", "Double", "LongDouble"} -> Ord["f"]
      [] t \in {"ComplexFloat", "ComplexDouble", "ComplexLongDouble"} -> Ord["c"]
      [] t = "Bool" -> Ord["b"]
      [] OTHER -> Ord["?"]

\* ------------------------------------------------------------ header encoder
\* struct NpHeader_ copied byte by byte: magic, "NUMPY", version 1.0, uint16 dictSize.
NpHeader(dictSize) ==
    <<147, 78, 85, 77, 80, 89, 1, 0, (dictSize % 65536) % 256, (dictSize % 65536) \div 256>>

RECURSIVE ShapeRest(_, _)
ShapeRest(shape, i) ==
    IF i > Len(shape) THEN <<>>
    ELSE kCommaSpace \o tostring(shape[i]) \o ShapeRest(shape, i + 1)

\* The dictionary text of the npy format before padding, for a byte-order character,
\* a type character, an element size, the text of the fortran_order value and a shape.
DictText(order, typeChar, elementSize, flagText, shape) ==
    kDescrOpen \o <<order, typeChar>> \o tostring(elementSize)
    \o kFortranKey \o flagText \o kShapeKey
    \o tostring(shape[1]) \o ShapeRest(shape, 2)
    \o (IF Len(shape) = 1 THEN kComma ELSE <<>>)
    \o kDictClose

\* The dictionary create_npy_header builds (cnpy.cpp lines 160-171): always False.
UnpaddedDict(dtype, elementSize, shape) ==
    DictText(BigEndianTest, map_type(dtype), elementSize, kFalse, shape)

\* A padding slip: remainder spaces instead of remainder-1.
PadDictOffByOne(dict) ==
    LET remainder == 16 - ((10 + Len(dict)) % 16)
    IN  dict \o Spaces(remainder) \o <<10>>

\* remainder-1 spaces, then the newline (cnpy.cpp lines 173-177).
PadDict(dict) ==
    LET remainder == 16 - ((10 + Len(dict)) % 16)
    IN  dict \o Spaces(remainder - 1) \o <<10>>

create_npy_header(dtype, elementSize, shape) ==
    LET dict == PadDict(UnpaddedDict(dtype, elementSize, shape))
    IN  NpHeader(Len(dict)) \o dict

\* ------------------------------------------------------------ header decoder
\* The outcome of a decode: st is "ok", "throw" (a C++ exception reaches the caller),
\* "abort" (an assert fails in a build with assertions) or "ub" (undefined behaviour).
\* exc is the exception of a "throw": its C++ type and the fixed part of what().
NoExc == [type |-> "none", what |-> ""]
RuntimeError(what) == [type |-> "std::runtime_error", what |-> what]
\* std::string::substr with pos > size()
OutOfRange == [type |-> "std::out_of_range", what |-> "basic_string::substr"]
\* std::stoull without a digit to convert
InvalidArgument == [type |-> "std::invalid_argument", what |-> "stoull"]

ParseFail(st) ==
    [st |-> st, exc |-> NoExc, word_size |-> 0, shape |-> <<>>, fortran_order |-> FALSE]
ParseThrow(exc) == [ParseFail("throw") EXCEPT !.exc = exc]

\* fortran_order = (header.substr(loc1,5) == "True"), loc1 = find("fortran_order")+16
\* (cnpy.cpp lines 203-204, and the same text at lines 242-243).
FortranFlag(header) ==
    LET loc1 == Find(header, kFortranOrder) + 16
    IN  Substr(header, loc1, 5) = kTrue

FortranFlagThrows(header) ==
    SubstrThrows(header,
        Find(header, kFortranOrder) + 16)

\* The text between the first "(" and the first ")" (lines 207-209 and 246-248).
ShapeText(header) ==
    LET loc1 == Find(header, kOpenParen)
        loc2 == Find(header, kCloseParen)
    IN  Substr(header, loc1 + 1, loc2 - loc1 - 1)

\* A slip in the rank rule: the trailing comma of "(N,)" counted as a separator.
ShapeRankNoTrailingComma(str_shape) == Count(str_shape, 44) + 1

\* ndims (lines 210-214 and 249-253); str_shape is not empty.
ShapeRank(str_shape) ==
    IF str_shape[Len(str_shape)] = 44 THEN 1 ELSE Count(str_shape, 44) + 1

\* The loop of lines 216-221 and 255-260: ndims fields, each parsed by stoull.
RECURSIVE ShapeLoop(_, _)
ShapeLoop(str_shape, ndims) ==
    IF ndims = 0 THEN [ok |-> TRUE, shape |-> <<>>]
    ELSE LET loc1 == Find(str_shape, kComma)
             v    == stoull(Substr(str_shape, 0, loc1))
             rest == ShapeLoop(Substr(str_shape, loc1 + 1, -1), ndims - 1)
         IN  IF v.ok /\ rest.ok
             THEN [ok |-> TRUE, shape |-> <<v.val>> \o rest.shape]
             ELSE [ok |-> FALSE, shape |-> <<>>]

\* The text of both decoders after the header string is in hand.  onBigEndian is
\* what a byte-order character other than '<' and '|' leads to: "throw"
\* (parseDictHeader, line 267), "abort" (the assert of line 228 in a build with
\* assertions) or "ignore" (that assert compiled out by NDEBUG).
ParseDict(header, onBigEndian) ==
    IF FortranFlagThrows(header) THEN ParseThrow(OutOfRange)
    ELSE
    LET fortran_order == FortranFlag(header)
        str_shape == ShapeText(header)
    IN  IF str_shape = <<>> THEN ParseFail("ub")
        ELSE
        LET dims == ShapeLoop(str_shape, ShapeRank(str_shape))
            loc1 == Find(header, kDescr) + 9
        IN  IF ~dims.ok THEN ParseThrow(InvalidArgument)
            ELSE IF loc1 > Len(header) THEN ParseFail("ub")
            ELSE
            LET c == IF loc1 = Len(header) THEN 0 ELSE header[loc1 + 1]
                littleEndian == c = Ord["<"] \/ c = Ord["|"]
            IN  IF ~littleEndian /\ onBigEndian = "throw"
                THEN ParseThrow(RuntimeError("Big endian data can note be managed."))
                ELSE IF ~littleEndian /\ onBigEndian # "ignore" THEN ParseFail(onBigEndian)
                ELSE IF SubstrThrows(header, loc1 + 2) THEN ParseThrow(OutOfRange)
                ELSE
                LET str_ws == Substr(header, loc1 + 2, -1)
                    loc2   == Find(str_ws, kQuote)
                    ws     == stoull(Substr(str_ws, 0, loc2))
                IN  IF ~ws.ok THEN ParseThrow(InvalidArgument)
                    ELSE [st |-> "ok", exc |-> NoExc, word_size |-> ws.val, shape |-> dims.shape,
                          fortran_order |-> fortran_order]

parseDictHeader(dict) == ParseDict(dict, "throw")

\* std::fgets(buffer, 256, fp) at file position 11: the number of bytes it consumes,
\* at most 255 and through the first newline.
FgetsConsumed(f) ==
    LET avail == SubSeq(f, 12, IF Len(f) < 11 + 255 THEN Len(f) ELSE 11 + 255)
        nl    == Find(avail, <<10>>)
    IN  IF nl >= 0 THEN nl + 1 ELSE Len(avail)

\* The std::string built from the buffer: it ends before the first NUL byte.
FgetsString(f) ==
    LET raw == SubSeq(f, 12, 11 + FgetsConsumed(f))
        z   == Find(raw, <<0>>)
    IN  IF z >= 0 THEN SubSeq(raw, 1, z) ELSE raw

\* parse_npy_header on a file with contents f, read from position 0; ndebug says
\* whether the asserts are compiled out.  pos is the file position afterwards.
parse_npy_header(f, ndebug) ==
    IF Len(f) < 11
    THEN ParseThrow(RuntimeError("parse_npy_header: failed fread")) @@ [pos |-> Len(f)]
    ELSE IF FgetsConsumed(f) = 0 THEN ParseFail("ub") @@ [pos |-> 11]
    ELSE
    LET header == FgetsString(f)
        pos    == 11 + FgetsConsumed(f)
    IN  IF ~ndebug /\ header = <<>> THEN ParseFail("ub") @@ [pos |-> pos]
        ELSE IF ~ndebug /\ header[Len(header)] # 10 THEN ParseFail("abort") @@ [pos |-> pos]
        ELSE ParseDict(header, IF ndebug THEN "ignore" ELSE "abort") @@ [pos |-> pos]

\* ---------------------------------------------------------------- NpArray
\* An NpArray object.  mData is a pointer: 0 is nullptr, another number names a
\* heap buffer.
NpArrayEmpty ==
    [mData |-> 0, mShape |-> <<>>, mElemSize |-> 0, mDataSize |-> 0,
     mIsFortranOrder |-> FALSE, mDtype |-> "Void", mHasDataOwnership |-> TRUE]

\* NpArray(shape, elSize, dataType, isFortran, data): ptr is what new[] returned.
NpArrayCtor(shape, elSize, dataType, isFortran, ptr) ==
    [mData |-> ptr, mShape |-> shape, mElemSize |-> elSize,
     mDataSize |-> Product(shape) * elSize,
     mIsFortranOrder |-> isFortran, mDtype |-> dataType, mHasDataOwnership |-> TRUE]

NpArray_numElements(a) == a.mDataSize \div a.mElemSize
NpArray_size(a) == a.mDataSize
NpArray_elemSize(a) == a.mElemSize
NpArray_nDims(a) == Len(a.mShape)
NpArray_isFortranOrder(a) == a.mIsFortranOrder
NpArray_dtype(a) == a.mDtype
NpArray_empty(a) == a.mData = 0

\* NpArray::data(): throws when the ownership flag is false, else the pointer.
NpArray_data(a) ==
    IF a.mHasDataOwnership = FALSE THEN [st |-> "throw", ptr |-> 0]
    ELSE [st |-> "ok", ptr |-> a.mData]

\* revokeDataOwnership()
revokeDataOwnership(a) == [a EXCEPT !.mHasDataOwnership = FALSE]

\* ~NpArray(): whether the destructor calls delete[] on mData.
DestructorDeletes(a) == a.mHasDataOwnership /\ a.mData # 0

\* NpArray::move(other), on this: the five members it assigns; mDataSize and mDtype
\* keep whatever this held.
MoveInto(self, other) ==
    [self EXCEPT !.mData = other.mData, !.mShape = other.mShape,
                 !.mElemSize = other.mElemSize,
                 !.mIsFortranOrder = other.mIsFortranOrder,
                 !.mHasDataOwnership = other.mHasDataOwnership]

\* A move that leaves the source as it was.
MovedFromUntouched(other) == other

\* NpArray::move(other), on other (the moved-from vector is left empty).
MovedFrom(other) ==
    [other EXCEPT !.mData = 0, !.mShape = <<>>, !.mElemSize = 0,
                  !.mIsFortranOrder = FALSE, !.mHasDataOwnership = FALSE]

\* The values an uninitialized mDataSize and mDtype may hold in a move-constructed
\* object: what the object reports is one of them.
IndetSizes == {0, 7}
IndetTypes == {"Void", "Double"}

\* An object under construction by NpArray(NpArray&&) before move() runs: the two
\* members move() does not assign are uninitialized.
Uninitialized(sz, ty) == [NpArrayEmpty EXCEPT !.mDataSize = sz, !.mDtype = ty]

\* The conversion that puts a bool in the place of the Type parameter: the
\* enumerators Void = 0 and Int8 = 1.
BoolAsType(b) == IF b THEN "Int8" ELSE "Void"

\* ------------------------------------------------------------- flat files
Min(a, b) == IF a < b THEN a ELSE b

\* std::accumulate(shape.cbegin(), shape.cend(), 1U, std::multiplies<size_t>()) for
\* the element counts of the file machine, all below 2^31, where the unsigned
\* accumulator does not wrap; AccumulateWide is the computation at every size.
Accumulate(shape) == Product(shape)

\* fwrite at file position pos of a file with contents f.
WriteAt(f, pos, bytes) ==
    SubSeq(f, 1, pos) \o bytes \o SubSeq(f, pos + Len(bytes) + 1, Len(f))

\* load_the_npy_file(std::FILE*): the array built from a file with contents f.
\* arr is constructed as NpArray(shape, word_size, fortran_order): the flag sits
\* in the place of the Type parameter and isFortran keeps its default, false.
\* buf is the contents of the buffer arr.mData (pointer 1) names.
LoadFail(st) == [st |-> st, exc |-> NoExc, arr |-> NpArrayEmpty, buf |-> <<>>]
LoadThrow(exc) == [LoadFail("throw") EXCEPT !.exc = exc]

\* load_the_npy_file(FILE*) once parse_npy_header has ended as h (lines 309-316).
ReadArray(f, h) ==
    IF h.st # "ok" THEN [LoadFail(h.st) EXCEPT !.exc = h.exc]
    ELSE IF h.word_size = 0 THEN LoadFail("ub")
    ELSE
    LET arr   == NpArrayCtor(h.shape, h.word_size, BoolAsType(h.fortran_order), FALSE, 1)
        num   == NpArray_numElements(arr)
        nread == Min(num, (Len(f) - h.pos) \div h.word_size)
    IN  IF nread # num THEN LoadThrow(RuntimeError("npy file read error"))
        ELSE [st |-> "ok", exc |-> NoExc, arr |-> arr,
              buf |-> SubSeq(f, h.pos + 1, h.pos + num * h.word_size)]

\* load_the_npy_file(FILE*) on a file with contents f.
load_the_npy_file(f, nd) == ReadArray(f, parse_npy_header(f, nd))

\* Returning an NpArray by value: the copy is elided, or the move constructor runs
\* on an object whose mDataSize and mDtype are uninitialized (sz, ty).
ReturnByValue(arr, elided, sz, ty) ==
    IF elided THEN arr ELSE MoveInto(Uninitialized(sz, ty), arr)

\* The end of a load whose load_the_npy_file ended as r: an exception passes
\* through, an array is returned by value.
ReturnLoaded(r, elided, sz, ty) ==
    IF r.st # "ok" THEN r
    ELSE [r EXCEPT !.arr = ReturnByValue(r.arr, elided, sz, ty)]

\* The FILE handles of a call: how many fopen returned and how many fclose closed.
NoHandle == [opened |-> 0, closed |-> 0]
HandleClosed == [opened |-> 1, closed |-> 1]
HandleLeft == [opened |-> 1, closed |-> 0]

\* fclose(fp) of npy_load (line 681) is reached when load_the_npy_file returns.
LoadedAndClosed(r) == r @@ [fp |-> IF r.st = "ok" THEN HandleClosed ELSE HandleLeft]

\* cnpy::npy_load on a file fl = [exists, bytes]: fopen fails on a file that does
\* not exist, and the call returns NpArray().
npy_load(fl, nd, elided, sz, ty) ==
    IF ~fl.exists THEN LoadFail("ok") @@ [fp |-> NoHandle]
    ELSE LoadedAndClosed(ReturnLoaded(load_the_npy_file(fl.bytes, nd), elided, sz, ty))

\* The checks of an append against the decoded header h (cnpy.cpp lines 365-378):
\* "ok", or how the call ends.  Both asserts vanish in a build with NDEBUG.
AppendCheck(h, elemSz, shape, nd) ==
    IF ~nd /\ h.fortran_order THEN "abort"
    ELSE IF ~nd /\ h.word_size # elemSz THEN "abort"
    ELSE IF Len(h.shape) # Len(shape) THEN "throw"
    ELSE IF \E i \in 2..Len(shape) : shape[i] # h.shape[i] THEN "throw"
    ELSE "ok"

\* The exception of a failed check (lines 372 and 377).
AppendError(h, shape) ==
    IF Len(h.shape) # Len(shape)
    THEN RuntimeError("Attempting to append misdimensioned data")
    ELSE RuntimeError("Attempting to append misshaped data")

\* The append branch (lines 360-384, 393-395) once parse_npy_header has ended as h.
AppendToFile(fl, h, nd, data, dtp, elemSz, shape) ==
    IF h.st # "ok" THEN [st |-> h.st, exc |-> h.exc, file |-> fl, fp |-> HandleLeft]
    ELSE IF AppendCheck(h, elemSz, shape, nd) # "ok"
    THEN [st |-> AppendCheck(h, elemSz, shape, nd),
          exc |-> IF AppendCheck(h, elemSz, shape, nd) = "throw"
                  THEN AppendError(h, shape) ELSE NoExc,
          file |-> fl, fp |-> HandleLeft]
    ELSE
    LET tmp_shape == [h.shape EXCEPT ![1] = @ + shape[1]]
        header    == create_npy_header(dtp, elemSz, tmp_shape)
        rewritten == WriteAt(fl.bytes, 0, header)
        nels      == Accumulate(shape)
    IN  [st |-> "ok", exc |-> NoExc,
         file |-> [exists |-> TRUE,
                   bytes |-> rewritten \o SubSeq(data, 1, elemSz * nels)],
         fp |-> HandleClosed]

\* cnpy::npy_save_data on a file fl = [exists, bytes]: how the call ends, the
\* file it leaves and its handle.  writable is whether the file system lets the
\* path be opened for writing: if not, both fopen calls return NULL and fwrite is
\* called on the null handle (lines 388-390).
npy_save_data(fl, nd, data, dtp, elemSz, shape, mode, writable) ==
    IF mode = "a" /\ fl.exists /\ writable
    THEN AppendToFile(fl, parse_npy_header(fl.bytes, nd), nd, data, dtp, elemSz, shape)
    ELSE IF ~writable
    THEN [st |-> "ub", exc |-> NoExc, file |-> fl, fp |-> NoHandle]
    ELSE LET header == create_npy_header(dtp, elemSz, shape)
             nels   == Accumulate(shape)
         IN  [st |-> "ok", exc |-> NoExc,
              file |-> [exists |-> TRUE,
                        bytes |-> header \o SubSeq(data, 1, elemSz * nels)],
              fp |-> HandleClosed]

\* -------------------------------------------------------- streaming source
\* ZipSourceCallbackData(h, d, dSize)
ZipSourceCallbackData(h, d, dSize) ==
    [header |-> h, data |-> d, dataSize |-> dSize, offset |-> 0, headerIsDone |-> FALSE]

\* An OPEN that rewinds the cursor and keeps the flag.
zipSourceOpenKeepsFlag(cb) == [cb EXCEPT !.offset = 0]

\* zipSourceCallback, ZIP_SOURCE_OPEN
zipSourceOpen(cb) == [cb EXCEPT !.offset = 0, !.headerIsDone = FALSE]

\* zipSourceCallback, ZIP_SOURCE_READ with a buffer of len bytes: the callback
\* data afterwards and the bytes copied (the return value is their number).
zipSourceRead(cb, len) ==
    IF cb.headerIsDone
    THEN LET toCopy == Min(len, cb.dataSize - cb.offset)
         IN  [cb  |-> [cb EXCEPT !.offset = @ + toCopy],
              out |-> SubSeq(cb.data, cb.offset + 1, cb.offset + toCopy)]
    ELSE LET toCopy == Min(len, Len(cb.header) - cb.offset)
             done   == cb.offset + toCopy = Len(cb.header)
         IN  [cb  |-> [cb EXCEPT !.offset = IF done THEN 0 ELSE @ + toCopy,
                                 !.headerIsDone = done],
              out |-> SubSeq(cb.header, cb.offset + 1, cb.offset + toCopy)]

\* zipSourceCallback, ZIP_SOURCE_STAT: zs->size
zipSourceStatSize(cb) == cb.dataSize + Len(cb.header)

\* zipSourceCallback, ZIP_SOURCE_STAT, ZIP_SOURCE_CLOSE, ZIP_SOURCE_ERROR and any
\* other command: the callback data afterwards; none of them assigns to it.
zipSourceOther(cb) == cb

\* The zip library writing an added entry: it reads the source, a buffer at a
\* time, until a read returns 0.
RECURSIVE DrainSource(_, _)
DrainSource(cb, len) ==
    LET r == zipSourceRead(cb, len)
    IN  IF r.out = <<>> THEN <<>> ELSE r.out \o DrainSource(r.cb, len)

\* ------------------------------------------------------------ zip library
\* An archive file is [exists, entries], entries a sequence of [name, content].
\* An open archive (struct zip) holds the file's entries, each with a deleted
\* mark, and the entries added since it was opened, each with its source.
kNpy == S(<<".", "n", "p", "y">>)

\* zip_open(path, ZIP_CREATE or ZIP_CHECKCONS): the handle, or null.
zip_open(ar, create) ==
    IF ar.exists
    THEN [null |-> FALSE,
          old |-> [i \in 1..Len(ar.entries) |->
                      [name |-> ar.entries[i].name, content |-> ar.entries[i].content,
                       deleted |-> FALSE]],
          added |-> <<>>]
    ELSE [null |-> ~create, old |-> <<>>, added |-> <<>>]

\* zip_name_locate(zip, fname, 0): 0-based index of the entry of that name, or -1.
zip_name_locate(z, fname) ==
    LET hits == {i \in 1..Len(z.old) : ~z.old[i].deleted /\ z.old[i].name = fname}
        more == {i \in 1..Len(z.added) : z.added[i].name = fname}
    IN  IF hits # {} THEN (CHOOSE i \in hits : \A j \in hits : i <= j) - 1
        ELSE IF more # {} THEN Len(z.old) + (CHOOSE i \in more : \A j \in more : i <= j) - 1
        ELSE -1

\* zip_delete(zip, index) on an entry of the file: marks it deleted.
zip_delete(z, idx) == [z EXCEPT !.old[idx + 1].deleted = TRUE]

\* zip_add(zip, fname, source): fails (-1) when the name is in use.
zip_add_fails(z, fname) == zip_name_locate(z, fname) >= 0
zip_add(z, fname, cb) == [z EXCEPT !.added = Append(@, [name |-> fname, source |-> cb])]

\* The length of the library's read buffer.
ReadBufLen == 32

RECURSIVE Surviving(_)
Surviving(old) ==
    IF old = <<>> THEN <<>>
    ELSE (IF Head(old).deleted THEN <<>>
          ELSE <<[name |-> Head(old).name, content |-> Head(old).content]>>)
         \o Surviving(Tail(old))

\* zip_close(zip): the archive file written: the entries not deleted, then the
\* added entries, each read from its source after ZIP_SOURCE_OPEN.
zip_close(z) ==
    LET written == Surviving(z.old)
                   \o [i \in 1..Len(z.added) |->
                          [name |-> z.added[i].name,
                           content |-> DrainSource(zipSourceOpen(z.added[i].source),
                                                   ReadBufLen)]]
    IN  [exists |-> written # <<>>, entries |-> written]

\* ----------------------------------------------------------------- archives
\* load_the_npy_file(Handler<struct zip_file>&) on an entry with contents c, once
\* the dictionary of dictSize bytes is read and parseDictHeader has ended as h
\* (lines 338-344).
ReadArrayZip(c, dictSize, h) ==
    IF h.st # "ok" THEN [LoadFail(h.st) EXCEPT !.exc = h.exc]
    ELSE
    LET arr   == NpArrayCtor(h.shape, h.word_size, BoolAsType(h.fortran_order), FALSE, 1)
        nread == Min(Len(c) - 10 - dictSize, NpArray_size(arr))
    IN  IF nread # NpArray_size(arr) THEN LoadThrow(RuntimeError("npy file read error"))
        ELSE [st |-> "ok", exc |-> NoExc, arr |-> arr,
              buf |-> SubSeq(c, 10 + dictSize + 1, 10 + dictSize + nread)]

\* header.dictSize of the ten bytes read into the NpHeader (little-endian uint16).
DictSizeField(c) == c[9] + 256 * c[10]

\* load_the_npy_file(Handler<struct zip_file>&) on an entry with contents c.
load_the_npy_file_zip(c) ==
    IF Len(c) < 10 THEN LoadThrow(RuntimeError("Error reading npy header in npz file"))
    ELSE IF Len(c) - 10 < DictSizeField(c)
    THEN LoadThrow(RuntimeError("Error reading npy dict header in npz file"))
    ELSE ReadArrayZip(c, DictSizeField(c),
                      parseDictHeader(SubSeq(c, 11, 10 + DictSizeField(c))))

\* An append that adds the entry without looking for an old one of the same name.
RemoveOldArraySkipped(z, fname) == [st |-> "ok", zip |-> z]

\* "Remove the old array if present" (cnpy.cpp lines 603-605); zip_delete succeeds.
RemoveOldArray(z, fname) ==
    LET nameLookup == zip_name_locate(z, fname)
    IN  IF nameLookup >= 0 THEN [st |-> "ok", zip |-> zip_delete(z, nameLookup)]
        ELSE [st |-> "ok", zip |-> z]

\* const int dataSize = std::accumulate(shape.cbegin(), shape.cend(), elemSize, ...)
\* for the byte counts of the archive machine, all below 2^31, where the int
\* holds the product; SourceDataSize is the computation at every size.
DataSize(shape, elemSz) == elemSz * Product(shape)

\* A write-mode save that leaves the old file in place.
RemoveOldFileSkipped(ar, mode, removable) == [st |-> "ok", archive |-> ar]

\* "Remove the old file if present" (cnpy.cpp lines 591-596): removable says
\* whether std::remove succeeds on the existing file.
RemoveOldFile(ar, mode, removable) ==
    IF mode = "w" /\ ar.exists
    THEN IF removable THEN [st |-> "ok", archive |-> [exists |-> FALSE, entries |-> <<>>]]
         ELSE [st |-> "throw", archive |-> ar]
    ELSE [st |-> "ok", archive |-> ar]

\* The rest of npz_save_data (lines 598-623) on the archive file ar.
AddToArchive(ar, name, data, dtp, elemSz, shape) ==
    LET fname == name \o kNpy
        zip   == zip_open(ar, TRUE)
    IN  IF zip.null
        THEN [st |-> "throw", exc |-> RuntimeError("Error opening npz file"), archive |-> ar]
        ELSE
        LET cleared == RemoveOldArray(zip, fname)
            header  == create_npy_header(dtp, elemSz, shape)
            cbData  == ZipSourceCallbackData(header, data, DataSize(shape, elemSz))
        IN  IF cleared.st # "ok"
            THEN [st |-> "throw", exc |-> RuntimeError("Unable to overwrite array"),
                  archive |-> zip_close(zip)]
            ELSE IF zip_add_fails(cleared.zip, fname)
            THEN [st |-> "throw", exc |-> RuntimeError("Error creating array"),
                  archive |-> zip_close(cleared.zip)]
            ELSE [st |-> "ok", exc |-> NoExc,
                  archive |-> zip_close(zip_add(cleared.zip, fname, cbData))]

\* npz_save_data once the old file is dealt with, which ended as removed.
SaveAfterRemove(removed, name, data, dtp, elemSz, shape) ==
    IF removed.st # "ok"
    THEN [st |-> "throw", exc |-> RuntimeError("Unable to overwrite"),
          archive |-> removed.archive]
    ELSE AddToArchive(removed.archive, name, data, dtp, elemSz, shape)

\* cnpy::npz_save_data on an archive file ar: how the call ends and the file left.
npz_save_data(ar, name, data, dtp, elemSz, shape, mode, removable) ==
    SaveAfterRemove(RemoveOldFile(ar, mode, removable), name, data, dtp, elemSz, shape)

\* name.erase(name.size()-3): one character too few.
StripSuffixShort(arrName) == SubSeq(arrName, 1, Len(arrName) - 3)

\* name.erase(name.size()-4) (cnpy.cpp line 645)
StripSuffix(arrName) == SubSeq(arrName, 1, Len(arrName) - 4)

\* The loop of cnpy::npz_load(fname) over entries i..: the map built so far is
\* arrays; std::map::insert keeps the first array of a key.  Each array is moved
\* into the pair and into the map node, so mDataSize and mDtype are (sz, ty).
RECURSIVE LoadEntries(_, _, _, _, _)

\* arrays.insert(NpArrayDictItem(name, r)) and the rest of the loop, for entry i
\* whose load_the_npy_file ended as r (line 646).
InsertLoaded(entries, i, arrays, sz, ty, name, r) ==
    IF r.st # "ok" THEN [st |-> r.st, exc |-> r.exc, arrays |-> <<>>]
    ELSE LoadEntries(entries, i + 1,
                     IF name \in DOMAIN arrays THEN arrays
                     ELSE arrays @@ (name :> [arr |-> ReturnByValue(r.arr, FALSE, sz, ty),
                                              buf |-> r.buf]),
                     sz, ty)

LoadEntries(entries, i, arrays, sz, ty) ==
    IF i > Len(entries) THEN [st |-> "ok", exc |-> NoExc, arrays |-> arrays]
    ELSE InsertLoaded(entries, i, arrays, sz, ty, StripSuffix(entries[i].name),
                      load_the_npy_file_zip(entries[i].content))

\* cnpy::npz_load(fname)
npz_load(ar, sz, ty) ==
    IF zip_open(ar, FALSE).null
    THEN [st |-> "throw", exc |-> RuntimeError("Error opening npz file"), arrays |-> <<>>]
    ELSE LoadEntries(ar.entries, 1, <<>>, sz, ty)

\* Not-found thrown as the exception of a header that cannot be read.
NotFoundErrorConflated == RuntimeError("Error reading npy header in npz file")

\* throw std::runtime_error("Variable name "+varname+" not found in "+fname)
NotFoundError == RuntimeError("Variable name not found")

\* npz_load(fname, varname) once zip_name_locate has returned nameLookup
\* (lines 661-667).
LoadLocated(ar, nameLookup, elided, sz, ty) ==
    IF nameLookup < 0 THEN LoadThrow(NotFoundError)
    ELSE ReturnLoaded(load_the_npy_file_zip(ar.entries[nameLookup + 1].content),
                      elided, sz, ty)

\* cnpy::npz_load(fname, varname)
npz_load_var(ar, varname, elided, sz, ty) ==
    IF zip_open(ar, FALSE).null THEN LoadThrow(RuntimeError("Error opening npz file"))
    ELSE LoadLocated(ar, zip_name_locate(zip_open(ar, FALSE), varname \o kNpy),
                     elided, sz, ty)

\* =================================================================== state
VARIABLES
    enc,      \* header machine: the last create_npy_header call and its result
    ndebug,   \* whether the build compiles the asserts out (NDEBUG)
    file,     \* the flat file of the file machine: whether it exists, and its bytes
    hist,     \* what the caller has saved into the flat file since it was created
    last,     \* the last flat-file call, its arguments and its outcome
    objs,     \* array machine: the NpArray instances, by name
    heap,     \* array machine: the buffers new[] has returned, by pointer
    ev,       \* array machine: the last operation on an instance and its outcome
    archive,  \* archive machine: the npz file: whether it exists, and its entries
    zhist,    \* what the caller has saved into the archive since it was created
    zlast,    \* the last archive call, its arguments and its outcome
    zsrc,     \* source machine: the callback data of one streaming source, the bytes
              \* it has delivered since it was opened, and the last command
    cnt       \* count machine: a shape and element size, and the byte counts computed

hdrVars == <<enc>>
npyVars == <<ndebug, file, hist, last>>
arrVars == <<objs, heap, ev>>
npzVars == <<archive, zhist, zlast>>
srcVars == <<zsrc>>
cntVars == <<cnt>>
vars == <<enc, ndebug, file, hist, last, objs, heap, ev, archive, zhist, zlast, zsrc, cnt>>

\* ---------------------------------------------------------- header machine
NoEnc == [dtype |-> "Void", elementSize |-> 0, shape |-> <<>>, bytes |-> <<>>]

\* The dimensions the header machine draws shapes from.
HeaderDims == {0, 1, 10}
HeaderShapes == UNION {[1..r -> HeaderDims] : r \in 1..MaxRank}

\* The element sizes a caller passes with a type: sizeof(_Tp) through npy_save<_Tp>,
\* and any size through npy_save_data with Type::Void.
ElemSizesOf(dtype) == IF dtype = "Void" THEN {3, 100} ELSE {SizeOf[dtype]}

\* The call create_npy_header(dtype, elementSize, shape) on the inputs drawn by Init.
Encode ==
    /\ enc.bytes = <<>>
    /\ enc' = [enc EXCEPT !.bytes = create_npy_header(enc.dtype, enc.elementSize, enc.shape)]
    /\ UNCHANGED <<npyVars, arrVars, npzVars, srcVars, cntVars>>

NoFile == [exists |-> FALSE, bytes |-> <<>>]
NoHist == [origin |-> "none", calls |-> <<>>, n |-> 0, fortran |-> FALSE]

IdleNpy ==
    /\ ndebug = FALSE
    /\ file = NoFile
    /\ hist = NoHist
    /\ last = [op |-> "none"]

\* The array machine before any instance exists.
Objs == 1..MaxObjs
Unborn == [st |-> "unborn", a |-> NpArrayEmpty, rev |-> FALSE]

IdleArr ==
    /\ objs = [o \in Objs |-> Unborn]
    /\ heap = <<>>
    /\ ev = [op |-> "none"]

\* The archive machine before any archive exists.
NoArchive == [exists |-> FALSE, entries |-> <<>>]
NoZHist == [origin |-> "none", calls |-> <<>>, n |-> 0]

IdleNpz ==
    /\ archive = NoArchive
    /\ zhist = NoZHist
    /\ zlast = [op |-> "none"]

\* The source machine and the count machine before they are given anything.
IdleSrc == zsrc = [op |-> "none"]
IdleCnt == cnt = [op |-> "none"]

InitHeader ==
    /\ \E dtype \in Types : \E shape \in HeaderShapes : \E elementSize \in ElemSizesOf(dtype) :
          enc = [dtype |-> dtype, elementSize |-> elementSize, shape |-> shape,
                 bytes |-> <<>>]
    /\ IdleNpy
    /\ IdleArr
    /\ IdleNpz
    /\ IdleSrc
    /\ IdleCnt

NextHeader == Encode

SpecHeader == InitHeader /\ [][NextHeader]_vars

\* 0-based position of the last '}' of a text, or -1.
LastBrace(dict) ==
    LET hits == {i \in 1..Len(dict) : dict[i] = 125}
    IN  IF hits = {} THEN -1 ELSE CHOOSE i \in hits : \A j \in hits : j <= i

\* C6: every header create_npy_header produces has 10 + dictSize divisible by 16,
\* a dictSize field equal to the number of dictionary bytes, a newline as its last
\* byte and nothing but spaces between the closing '}' and that newline.
C6_HeaderAlignment ==
    enc.bytes # <<>> =>
        LET h        == enc.bytes
            dictSize == h[9] + 256 * h[10]
            dict     == SubSeq(h, 11, Len(h))
            close    == LastBrace(dict)
        IN  /\ (10 + dictSize) % 16 = 0
            /\ dictSize = Len(dict)
            /\ dict[Len(dict)] = 10
            /\ close > 0
            /\ \A i \in (close + 1)..(Len(dict) - 1) : dict[i] = 32

\* C6 witness: a header whose unpadded length is already 15 modulo 16 (no space fits).
C6_Witness ==
    /\ enc.bytes # <<>>
    /\ (10 + Len(UnpaddedDict(enc.dtype, enc.elementSize, enc.shape))) % 16 = 15
    /\ Len(enc.bytes) = 10 + Len(UnpaddedDict(enc.dtype, enc.elementSize, enc.shape)) + 1

\* The other edge of C6: an unpadded length of 0 modulo 16 gets 15 spaces.
C6_WitnessFullPad ==
    /\ enc.bytes # <<>>
    /\ (10 + Len(UnpaddedDict(enc.dtype, enc.elementSize, enc.shape))) % 16 = 0

\* ------------------------------------------------------- flat-file machine
\* One flat file, and a caller that saves into it, appends to it and loads it, as
\* main does with arr1.npy (example1.cpp lines 22-38).  hist.calls are the saves
\* that built the present file, hist.n counts every save call made.
FileTypes == {"Int8", "Uint16"}
FileShapes ==
    {<<1>>, <<9>>, <<0>>, <<1, 2>>, <<2, 0, 2>>, <<2, 1, 2, 1>>,
     <<9, 1, 1, 1, 10>>, <<1, 1, 1, 1, 10>>}

\* The caller's buffer for its k-th save: n bytes that differ from call to call.
CallerData(k, n) == [i \in 1..n |-> (k * 50 + i) % 256]

NpySave(mode, dtp, shape, writable) ==
    /\ hist.n < MaxCalls
    /\ LET elemSz == SizeOf[dtp]
           call == [mode |-> mode, dtype |-> dtp, elemSize |-> elemSz, shape |-> shape,
                    writable |-> writable,
                    data |-> CallerData(hist.n + 1, Product(shape) * elemSz)]
       IN  \E r \in {npy_save_data(file, ndebug, call.data, dtp, elemSz, shape, mode,
                                   writable)} :
           /\ file' = r.file
           /\ hist' = IF r.st # "ok" THEN [hist EXCEPT !.n = @ + 1]
                      ELSE IF mode = "a" /\ file.exists
                      THEN [hist EXCEPT !.n = @ + 1, !.calls = Append(@, call)]
                      ELSE [origin |-> "saved", calls |-> <<call>>, n |-> hist.n + 1,
                            fortran |-> FALSE]
           /\ last' = [op |-> "save", st |-> r.st, exc |-> r.exc, fp |-> r.fp,
                       call |-> call, before |-> file]
    /\ UNCHANGED <<ndebug, hdrVars, arrVars, npzVars, srcVars, cntVars>>

\* How a returned NpArray reaches the caller: elided, or move-constructed with some
\* values in the two members the move leaves uninitialized.
ReturnModes ==
    {[elided |-> TRUE, sz |-> 0, ty |-> "Void"]}
    \cup {[elided |-> FALSE, sz |-> sz, ty |-> ty] : sz \in IndetSizes, ty \in IndetTypes}

NpyLoad(ret) ==
    /\ last.op # "load"
    /\ \E r \in {npy_load(file, ndebug, ret.elided, ret.sz, ret.ty)} :
           last' = [op |-> "load", st |-> r.st, exc |-> r.exc, fp |-> r.fp,
                    arr |-> r.arr, buf |-> r.buf]
    /\ UNCHANGED <<ndebug, file, hist, hdrVars, arrVars, npzVars, srcVars, cntVars>>

\* A file written by another npy producer, which may declare fortran_order True.
\* The saves made while the path cannot be opened for writing.
DeniedTypes == {"Int8"}
DeniedShapes == {<<1>>}

\* The byte-order characters another producer writes in descr.
ByteOrders == {Ord["<"], Ord[">"]}
ExternalTypes == {"Double"}
ExternalShapes == {<<2, 3>>, <<4>>}

PlaceExternalFile(order, fortran, dtp, shape) ==
    /\ hist.origin = "none"
    /\ ~file.exists
    /\ LET dict == PadDict(DictText(order, map_type(dtp), SizeOf[dtp],
                                    IF fortran THEN kTrue
                                               ELSE kFalse,
                                    shape))
       IN  file' = [exists |-> TRUE,
                    bytes |-> NpHeader(Len(dict)) \o dict
                              \o CallerData(0, Product(shape) * SizeOf[dtp])]
    /\ hist' = [origin |-> "external", calls |-> <<>>, n |-> hist.n, fortran |-> fortran]
    /\ last' = [op |-> "external"]
    /\ UNCHANGED <<ndebug, hdrVars, arrVars, npzVars, srcVars, cntVars>>

Init ==
    /\ enc = NoEnc
    /\ ndebug \in BOOLEAN
    /\ file = NoFile
    /\ hist = NoHist
    /\ last = [op |-> "none"]
    /\ IdleArr
    /\ IdleNpz
    /\ IdleSrc
    /\ IdleCnt

Next ==
    \/ \E mode \in {"w", "a"} : \E dtp \in FileTypes : \E shape \in FileShapes :
          NpySave(mode, dtp, shape, TRUE)
    \/ \E mode \in {"w", "a"} : \E dtp \in DeniedTypes : \E shape \in DeniedShapes :
          NpySave(mode, dtp, shape, FALSE)
    \/ \E ret \in ReturnModes : NpyLoad(ret)
    \/ \E order \in ByteOrders : \E fortran \in BOOLEAN :
          \E dtp \in ExternalTypes : \E shape \in ExternalShapes :
             PlaceExternalFile(order, fortran, dtp, shape)

Spec == Init /\ [][Next]_vars

\* ------------------------------------------------------- flat-file claims
\* What the present file decodes to, with the asserts out of the way.
FileHeader == parse_npy_header(file.bytes, TRUE)
FilePayload == SubSeq(file.bytes, FileHeader.pos + 1, Len(file.bytes))

RECURSIVE SumLeads(_)
SumLeads(calls) == IF calls = <<>> THEN 0 ELSE Head(calls).shape[1] + SumLeads(Tail(calls))

RECURSIVE ConcatData(_)
ConcatData(calls) == IF calls = <<>> THEN <<>> ELSE Head(calls).data \o ConcatData(Tail(calls))

\* The present file is what one write-mode save of a rank 1..4 array left.
OneWriteSave ==
    /\ hist.origin = "saved"
    /\ Len(hist.calls) = 1
    /\ hist.calls[1].mode = "w"
    /\ Len(hist.calls[1].shape) \in 1..4
    /\ hist.calls[1].dtype \in SupportedTypes

\* C1: npy_load of a file that npy_save_data wrote in write mode (rank 1 to 4,
\* axes of size 0 and 1 included, a supported type) returns an array of the same
\* rank and dimensions and the same element size, with fortran order false and a
\* buffer equal, byte for byte, to the saved data.
C1_RoundTrip ==
    (last.op = "load" /\ OneWriteSave) =>
        /\ last.st = "ok"
        /\ ~NpArray_empty(last.arr)
        /\ NpArray_nDims(last.arr) = Len(hist.calls[1].shape)
        /\ last.arr.mShape = hist.calls[1].shape
        /\ NpArray_elemSize(last.arr) = hist.calls[1].elemSize
        /\ NpArray_isFortranOrder(last.arr) = FALSE
        /\ last.buf = hist.calls[1].data

\* C1 witness: a loaded rank-3 array with an axis of size 0 next to axes of size 2.
C1_Witness ==
    /\ last.op = "load" /\ OneWriteSave
    /\ hist.calls[1].shape = <<2, 0, 2>>
    /\ last.st = "ok"

\* C1 witness, second edge: a loaded rank-4 array with axes of size 1 and data.
C1_WitnessData ==
    /\ last.op = "load" /\ OneWriteSave
    /\ hist.calls[1].shape = <<2, 1, 2, 1>>
    /\ Len(last.buf) = 8

\* The calls that built the file were all appends of one element size and one
\* set of non-leading dimensions, the first of them onto an absent file.
AppendsOnly ==
    /\ hist.origin = "saved"
    /\ \A i \in 1..Len(hist.calls) :
          /\ hist.calls[i].mode = "a"
          /\ hist.calls[i].elemSize = hist.calls[1].elemSize
          /\ Tail(hist.calls[i].shape) = Tail(hist.calls[1].shape)

\* C2: after N appends of one element size and the same non-leading dimensions
\* onto a fresh file, the file's decoded leading dimension is the sum of the
\* appended leading dimensions and its payload region is the concatenation of the
\* appended payloads in call order.
C2_AppendAccumulates ==
    AppendsOnly =>
        /\ FileHeader.st = "ok"
        /\ FileHeader.shape[1] = SumLeads(hist.calls)
        /\ FilePayload = ConcatData(hist.calls)

\* The last call was an append onto an existing file whose header disagrees with
\* the data in element size, rank or a non-leading dimension.
MismatchedAppend ==
    /\ last.op = "save"
    /\ last.call.mode = "a"
    /\ last.call.writable
    /\ last.before.exists
    /\ LET h == parse_npy_header(last.before.bytes, TRUE)
       IN  /\ h.st = "ok"
           /\ \/ h.word_size # last.call.elemSize
              \/ Len(h.shape) # Len(last.call.shape)
              \/ Tail(h.shape) # Tail(last.call.shape)

\* C5: an append whose element size, rank or non-leading dimensions differ from
\* the existing file's header ends in an error, and the file is byte for byte what
\* it was before the call.
C5_MismatchRejected ==
    MismatchedAppend => (last.st \in {"throw", "abort"} /\ file = last.before)

\* C9: an array loaded from a file saved with a supported type T reports dtype() = T.
C9_DtypeRoundTrip ==
    (last.op = "load" /\ last.st = "ok" /\ hist.origin = "saved"
        /\ Len(hist.calls) = 1 /\ hist.calls[1].dtype \in SupportedTypes)
    => NpArray_dtype(last.arr) = hist.calls[1].dtype

\* C10: an array loaded from a file whose dictionary declares 'fortran_order': True
\* reports isFortranOrder() = true, and one that declares False reports false.
C10_FortranFlagDecoded ==
    (last.op = "load" /\ last.st = "ok" /\ hist.origin = "external")
    => NpArray_isFortranOrder(last.arr) = hist.fortran

\* ------------------------------------------------------------ array machine
\* MaxObjs NpArray instances that a caller constructs, moves, revokes, reads
\* and destroys.  objs[o].rev records that revokeDataOwnership was called on the
\* instance (a move carries the mark with the buffer); heap[p] counts the
\* delete[] calls on buffer p and records whether a revoked instance made one.
ArrTypes == {"Double"}
ArrShapes == {<<2>>, <<1, 3>>}

Alive(o) == objs[o].st = "alive"

Construct(o, shape, dt) ==
    /\ objs[o].st = "unborn"
    /\ heap' = Append(heap, [frees |-> 0, byRevoked |-> FALSE])
    /\ objs' = [objs EXCEPT ![o] =
                   [st |-> "alive", rev |-> FALSE,
                    a |-> NpArrayCtor(shape, SizeOf[dt], dt, FALSE, Len(heap) + 1)]]
    /\ ev' = [op |-> "construct", obj |-> o]
    /\ UNCHANGED <<hdrVars, npyVars, npzVars, srcVars, cntVars>>

ConstructEmpty(o) ==
    /\ objs[o].st = "unborn"
    /\ objs' = [objs EXCEPT ![o] = [st |-> "alive", rev |-> FALSE, a |-> NpArrayEmpty]]
    /\ ev' = [op |-> "construct", obj |-> o]
    /\ UNCHANGED <<heap, hdrVars, npyVars, npzVars, srcVars, cntVars>>

\* NpArray(NpArray&& other): o is built from src.
MoveConstruct(o, src, sz, ty) ==
    /\ objs[o].st = "unborn"
    /\ Alive(src)
    /\ objs' = [objs EXCEPT
                   ![o] = [st |-> "alive", rev |-> objs[src].rev,
                           a |-> MoveInto(Uninitialized(sz, ty), objs[src].a)],
                   ![src] = [@ EXCEPT !.a = MovedFrom(objs[src].a), !.rev = FALSE]]
    /\ ev' = [op |-> "move", dst |-> o, src |-> src, srcSize |-> objs[src].a.mDataSize]
    /\ UNCHANGED <<heap, hdrVars, npyVars, npzVars, srcVars, cntVars>>

\* operator=(NpArray&& other): dst = std::move(src), dst = src included.
MoveAssign(dst, src) ==
    /\ Alive(dst)
    /\ Alive(src)
    /\ LET moved == MoveInto(objs[dst].a, objs[src].a)
       IN  objs' = IF dst = src
                   THEN [objs EXCEPT ![dst] = [@ EXCEPT !.a = MovedFrom(moved), !.rev = FALSE]]
                   ELSE [objs EXCEPT
                            ![dst] = [@ EXCEPT !.a = moved, !.rev = objs[src].rev],
                            ![src] = [@ EXCEPT !.a = MovedFrom(objs[src].a), !.rev = FALSE]]
    /\ ev' = [op |-> "move", dst |-> dst, src |-> src, srcSize |-> objs[src].a.mDataSize]
    /\ UNCHANGED <<heap, hdrVars, npyVars, npzVars, srcVars, cntVars>>

Revoke(o) ==
    /\ Alive(o)
    /\ objs' = [objs EXCEPT ![o] = [@ EXCEPT !.a = revokeDataOwnership(@), !.rev = TRUE]]
    /\ ev' = [op |-> "revoke", obj |-> o]
    /\ UNCHANGED <<heap, hdrVars, npyVars, npzVars, srcVars, cntVars>>

Data(o) ==
    /\ Alive(o)
    /\ ev' = [op |-> "data", obj |-> o, result |-> NpArray_data(objs[o].a)]
    /\ UNCHANGED <<objs, heap, hdrVars, npyVars, npzVars, srcVars, cntVars>>

Destroy(o) ==
    /\ Alive(o)
    /\ objs' = [objs EXCEPT ![o] = [@ EXCEPT !.st = "destroyed"]]
    /\ heap' = IF DestructorDeletes(objs[o].a)
               THEN [heap EXCEPT ![objs[o].a.mData] =
                        [frees |-> @.frees + 1, byRevoked |-> @.byRevoked \/ objs[o].rev]]
               ELSE heap
    /\ ev' = [op |-> "destroy", obj |-> o]
    /\ UNCHANGED <<hdrVars, npyVars, npzVars, srcVars, cntVars>>

InitArray ==
    /\ enc = NoEnc
    /\ IdleNpy
    /\ IdleArr
    /\ IdleNpz
    /\ IdleSrc
    /\ IdleCnt

NextArray ==
    \/ \E o \in Objs : \E shape \in ArrShapes : \E dt \in ArrTypes : Construct(o, shape, dt)
    \/ \E o \in Objs : ConstructEmpty(o)
    \/ \E o \in Objs : \E src \in Objs : \E sz \in IndetSizes : \E ty \in IndetTypes :
          MoveConstruct(o, src, sz, ty)
    \/ \E dst \in Objs : \E src \in Objs : MoveAssign(dst, src)
    \/ \E o \in Objs : Revoke(o)
    \/ \E o \in Objs : Data(o)
    \/ \E o \in Objs : Destroy(o)

SpecArray == InitArray /\ [][NextArray]_vars

\* C7: every non-empty instance reports size() = product of its dimensions times
\* elemSize() and numElements() = product of its dimensions, and the destination
\* of a move reports the size its source had before the move.
C7_SizeInvariant ==
    /\ \A o \in Objs :
          (Alive(o) /\ ~NpArray_empty(objs[o].a)) =>
              /\ NpArray_size(objs[o].a)
                    = Product(objs[o].a.mShape) * NpArray_elemSize(objs[o].a)
              /\ NpArray_elemSize(objs[o].a) # 0
              /\ NpArray_numElements(objs[o].a) = Product(objs[o].a.mShape)
    /\ (ev.op = "move" /\ ev.dst # ev.src) =>
          NpArray_size(objs[ev.dst].a) = ev.srcSize

\* The live instances that hold ownership of buffer p.
Owners(p) ==
    {o \in Objs : Alive(o) /\ objs[o].a.mData = p /\ objs[o].a.mHasDataOwnership}

\* C8: at most one instance holds ownership of a buffer; a buffer is freed at most
\* once, and never by an instance whose ownership was revoked; the source of a
\* move is left empty; data() on an instance whose ownership was revoked throws.
C8_ExclusiveOwnership ==
    /\ \A p \in 1..Len(heap) :
          /\ Cardinality(Owners(p)) <= 1
          /\ heap[p].frees <= 1
          /\ ~heap[p].byRevoked
          /\ heap[p].frees = 1 => Owners(p) = {}
    /\ ev.op = "move" => NpArray_empty(objs[ev.src].a)
    /\ (ev.op = "data" /\ objs[ev.obj].rev) => ev.result.st = "throw"

\* C8 witness: a buffer has been moved to a second instance and freed by it, after
\* the first instance, its source, was destroyed without freeing it.
C8_Witness ==
    /\ Len(heap) >= 1 /\ heap[1].frees = 1
    /\ objs[1].st = "destroyed" /\ objs[1].a.mData = 0
    /\ objs[2].st = "destroyed" /\ objs[2].a.mData = 1

\* C8 witness, the revoked side: data() has thrown on a revoked instance that still
\* points at its buffer.
C8_WitnessRevoked ==
    /\ ev.op = "data" /\ objs[ev.obj].rev
    /\ objs[ev.obj].a.mData # 0
    /\ ev.result.st = "throw"

\* ---------------------------------------------------------- archive machine
\* One archive, out.npz, that callers save arrays into and load them from, as
\* main does (example1.cpp lines 40-70).  zhist.calls are the saves that built
\* the present archive since it was last absent or placed by another producer
\* (zhist.origin), zhist.n counts the changes made to the archive.
MaxZipCalls == 3
kNameA == S(<<"a">>)
kNameB == S(<<"a", "r", "r", "1">>)
ZipNames == {kNameA, kNameB}
ZipItems == {[dtype |-> "Int8", shape |-> <<3>>], [dtype |-> "Double", shape |-> <<1, 5>>]}

\* A save; removable is whether the file system lets the old file be deleted.
NpzSave(mode, name, item, removable) ==
    /\ zhist.n < MaxZipCalls
    /\ removable \/ (mode = "w" /\ archive.exists)
    /\ LET elemSz == SizeOf[item.dtype]
           call == [mode |-> mode, name |-> name, dtype |-> item.dtype,
                    elemSize |-> elemSz, shape |-> item.shape, removable |-> removable,
                    data |-> CallerData(zhist.n + 1, Product(item.shape) * elemSz)]
       IN  \E r \in {npz_save_data(archive, name, call.data, item.dtype, elemSz,
                                   item.shape, mode, removable)} :
           /\ archive' = r.archive
           /\ zhist' = IF r.st # "ok" THEN [zhist EXCEPT !.n = @ + 1]
                       ELSE IF mode = "a"
                       THEN [zhist EXCEPT !.n = @ + 1, !.calls = Append(@, call)]
                       ELSE [origin |-> "saved", calls |-> <<call>>, n |-> zhist.n + 1]
           /\ zlast' = [op |-> "save", st |-> r.st, exc |-> r.exc, call |-> call,
                        before |-> archive]
    /\ UNCHANGED <<hdrVars, npyVars, arrVars, srcVars, cntVars>>

NpzLoadAll(sz, ty) ==
    /\ zlast.op \in {"none", "save", "external"}
    /\ \E r \in {npz_load(archive, sz, ty)} :
           zlast' = [op |-> "loadall", st |-> r.st, exc |-> r.exc, arrays |-> r.arrays]
    /\ UNCHANGED <<archive, zhist, hdrVars, npyVars, arrVars, srcVars, cntVars>>

NpzLoadVar(varname, ret) ==
    /\ zlast.op \in {"none", "save", "external"}
    /\ \E r \in {npz_load_var(archive, varname, ret.elided, ret.sz, ret.ty)} :
           zlast' = [op |-> "loadvar", varname |-> varname, st |-> r.st, exc |-> r.exc,
                     arr |-> r.arr, buf |-> r.buf]
    /\ UNCHANGED <<archive, zhist, hdrVars, npyVars, arrVars, srcVars, cntVars>>

\* The entry a.npy of an archive written by another producer, or damaged since:
\* a well-formed array of three bytes, and the ways its bytes can be cut short
\* or spoiled.
GoodEntry == create_npy_header("Int8", 1, <<3>>) \o CallerData(0, 3)
BigEndianDict == PadDict(DictText(Ord[">"], map_type("Int16"), 2, kFalse, <<3>>))
ExternalEntries ==
    [good         |-> GoodEntry,
     cutHeader    |-> SubSeq(GoodEntry, 1, 6),
     cutDict      |-> SubSeq(GoodEntry, 1, 40),
     cutPayload   |-> SubSeq(GoodEntry, 1, Len(GoodEntry) - 2),
     spoiledShape |-> [GoodEntry EXCEPT ![Find(GoodEntry, kOpenParen) + 2] = Ord["x"]],
     spoiledDescr |-> [GoodEntry EXCEPT ![Find(GoodEntry, kDescr) + 12] = Ord["x"]],
     bigEndian    |-> NpHeader(Len(BigEndianDict)) \o BigEndianDict \o CallerData(0, 6)]

\* A structurally valid archive placed at the path by another producer.
PlaceExternalArchive(kind) ==
    /\ zhist.origin = "none"
    /\ ~archive.exists
    /\ zhist.n < MaxZipCalls
    /\ archive' = [exists |-> TRUE,
                   entries |-> <<[name |-> kNameA \o kNpy, content |-> ExternalEntries[kind]]>>]
    /\ zhist' = [origin |-> "external", calls |-> <<>>, n |-> zhist.n + 1, kind |-> kind]
    /\ zlast' = [op |-> "external"]
    /\ UNCHANGED <<hdrVars, npyVars, arrVars, srcVars, cntVars>>

InitArchive ==
    /\ enc = NoEnc
    /\ IdleNpy
    /\ IdleArr
    /\ IdleNpz
    /\ IdleSrc
    /\ IdleCnt

NextArchive ==
    \/ \E mode \in {"w", "a"} : \E name \in ZipNames : \E item \in ZipItems :
          \E removable \in BOOLEAN : NpzSave(mode, name, item, removable)
    \/ \E kind \in DOMAIN ExternalEntries : PlaceExternalArchive(kind)
    \/ \E sz \in IndetSizes : \E ty \in IndetTypes : NpzLoadAll(sz, ty)
    \/ \E varname \in ZipNames : \E ret \in ReturnModes : NpzLoadVar(varname, ret)

SpecArchive == InitArchive /\ [][NextArchive]_vars

\* ------------------------------------------------------------ archive claims
NamesDistinct(calls) ==
    \A i, j \in 1..Len(calls) : i # j => calls[i].name # calls[j].name

WriteThenAppends(calls) ==
    /\ calls # <<>>
    /\ calls[1].mode = "w"
    /\ \A i \in 2..Len(calls) : calls[i].mode = "a"

SavedNames(calls) == {calls[i].name : i \in 1..Len(calls)}

\* C3: after saves under pairwise distinct names into one archive, the first in
\* write mode and the rest in append mode, npz_load(archive) ends normally with
\* a map whose keys are exactly the saved names, without the ".npy" suffix, and
\* npz_load(archive, name) ends normally with the shape and the payload saved
\* under that name; so do the arrays of the map.
C3_ArchiveNameRoundTrip ==
    (WriteThenAppends(zhist.calls) /\ NamesDistinct(zhist.calls)) =>
        /\ zlast.op = "loadall" =>
              /\ zlast.st = "ok"
              /\ DOMAIN zlast.arrays = SavedNames(zhist.calls)
              /\ \A i \in 1..Len(zhist.calls) :
                    /\ zlast.arrays[zhist.calls[i].name].arr.mShape = zhist.calls[i].shape
                    /\ zlast.arrays[zhist.calls[i].name].buf = zhist.calls[i].data
        /\ zlast.op = "loadvar" =>
              \A i \in 1..Len(zhist.calls) :
                 zhist.calls[i].name = zlast.varname =>
                    /\ zlast.st = "ok"
                    /\ zlast.arr.mShape = zhist.calls[i].shape
                    /\ zlast.buf = zhist.calls[i].data

\* npz_load(archive) after a write-mode save and an append-mode save under two names.
C3_Witness ==
    /\ zlast.op = "loadall"
    /\ Len(zhist.calls) = 2
    /\ WriteThenAppends(zhist.calls)
    /\ NamesDistinct(zhist.calls)
    /\ zlast.st = "ok"

\* npz_load(archive, name) of the entry saved second, a 40-byte payload.
C3_WitnessVar ==
    /\ zlast.op = "loadvar"
    /\ Len(zhist.calls) = 2
    /\ WriteThenAppends(zhist.calls)
    /\ NamesDistinct(zhist.calls)
    /\ zhist.calls[2].name = zlast.varname
    /\ Len(zhist.calls[2].data) = 40
    /\ zlast.buf = zhist.calls[2].data

EntriesNamed(ar, fname) == {i \in 1..Len(ar.entries) : ar.entries[i].name = fname}

OtherEntries(ar, fname) ==
    {ar.entries[i] : i \in {j \in 1..Len(ar.entries) : ar.entries[j].name # fname}}

\* C4: after any sequence of npz_save_data calls on one archive no two entries
\* share a name; an append-mode save under a name the archive already holds ends
\* normally and leaves exactly one entry of that name, which decodes to the shape
\* and the data of this save, and leaves every other entry as it was.
C4_ReplaceNotDuplicate ==
    /\ \A i, j \in 1..Len(archive.entries) :
          i # j => archive.entries[i].name # archive.entries[j].name
    /\ (/\ zlast.op = "save"
        /\ zlast.call.mode = "a"
        /\ EntriesNamed(zlast.before, zlast.call.name \o kNpy) # {}) =>
          /\ zlast.st = "ok"
          /\ Cardinality(EntriesNamed(archive, zlast.call.name \o kNpy)) = 1
          /\ \A i \in EntriesNamed(archive, zlast.call.name \o kNpy) :
                LET r == load_the_npy_file_zip(archive.entries[i].content)
                IN  /\ r.st = "ok"
                    /\ r.arr.mShape = zlast.call.shape
                    /\ r.buf = zlast.call.data
          /\ OtherEntries(archive, zlast.call.name \o kNpy)
                = OtherEntries(zlast.before, zlast.call.name \o kNpy)

\* An append-mode save under the name of the first of two entries, whose old
\* entry held other data.
C4_Witness ==
    /\ zlast.op = "save"
    /\ zlast.call.mode = "a"
    /\ zlast.st = "ok"
    /\ Len(zlast.before.entries) = 2
    /\ zlast.before.entries[1].name = zlast.call.name \o kNpy
    /\ Len(archive.entries) = 2
    /\ archive.entries[2].name = zlast.call.name \o kNpy
    /\ archive.entries[2].content # zlast.before.entries[1].content

\* C11: npz_load(archive, name) on an existing archive without an entry
\* "<name>.npy" throws the not-found exception and returns no array; and a load of
\* an entry that is there, cut short or spoiled as it may be, never ends with that
\* exception.
C11_NotFoundDistinct ==
    (zlast.op = "loadvar" /\ archive.exists) =>
        IF EntriesNamed(archive, zlast.varname \o kNpy) = {}
        THEN /\ zlast.st = "throw"
             /\ zlast.exc.what = "Variable name not found"
             /\ zlast.arr = NpArrayEmpty
             /\ zlast.buf = <<>>
        ELSE zlast.exc.what # "Variable name not found"

\* A load of a name the archive, which holds another entry, does not have.
C11_Witness ==
    /\ zlast.op = "loadvar"
    /\ archive.exists
    /\ Len(archive.entries) = 1
    /\ EntriesNamed(archive, zlast.varname \o kNpy) = {}
    /\ zlast.st = "throw"

\* A load of an entry whose header is cut short: another exception.
C11_WitnessCut ==
    /\ zlast.op = "loadvar"
    /\ zhist.origin = "external"
    /\ zhist.kind = "cutHeader"
    /\ zhist.n = 1
    /\ zlast.varname = kNameA
    /\ zlast.st = "throw"
    /\ zlast.exc.what = "Error reading npy header in npz file"

\* C12: a write-mode npz_save_data that returns normally leaves an archive with
\* exactly one entry, the array just saved, whatever the archive held before; and
\* when the existing file cannot be deleted the call throws and the archive is
\* what it was.
C12_WriteModeFresh ==
    (zlast.op = "save" /\ zlast.call.mode = "w") =>
        /\ zlast.st = "ok" =>
              /\ archive.exists
              /\ Len(archive.entries) = 1
              /\ archive.entries[1].name = zlast.call.name \o kNpy
              /\ LET r == load_the_npy_file_zip(archive.entries[1].content)
                 IN  /\ r.st = "ok"
                     /\ r.arr.mShape = zlast.call.shape
                     /\ r.buf = zlast.call.data
        /\ (zlast.before.exists /\ ~zlast.call.removable) =>
              /\ zlast.st = "throw"
              /\ archive = zlast.before
        /\ (~zlast.before.exists \/ zlast.call.removable) => zlast.st = "ok"

\* A write-mode save onto an archive of two entries.
C12_Witness ==
    /\ zlast.op = "save"
    /\ zlast.call.mode = "w"
    /\ zlast.st = "ok"
    /\ Len(zlast.before.entries) = 2
    /\ Len(archive.entries) = 1

\* A write-mode save onto an archive that cannot be deleted.
C12_WitnessDenied ==
    /\ zlast.op = "save"
    /\ zlast.call.mode = "w"
    /\ zlast.before.exists
    /\ ~zlast.call.removable
    /\ zlast.st = "throw"
    /\ archive.exists

\* ------------------------------------------------- further flat-file claims
\* C13: a flat-file operation whose file cannot be opened ends in an error that
\* reaches the caller: npy_load of a file that is not there does not return
\* normally, and npy_save_data on a path that cannot be opened for writing ends
\* with an exception and writes nothing.
C13_OpenFailureSurfaced ==
    /\ (last.op = "load" /\ ~file.exists) => last.st \in {"throw", "abort"}
    /\ (last.op = "save" /\ ~last.call.writable) =>
          (last.st \in {"throw", "abort"} /\ file = last.before)

\* C14: when a flat-file load or save returns, normally or by an exception, every
\* FILE handle it opened has been closed, once.
C14_NoHandleOutlivesCall ==
    (last.op \in {"load", "save"} /\ last.st \in {"ok", "throw"}) =>
        last.fp.opened = last.fp.closed

\* The length of the header at the start of a file of this code.
HeaderLen(bytes) == 10 + DictSizeField(bytes)

\* C15: an append that returns normally onto a file written by this code leaves
\* the header as long as it was, and the payload bytes the file had where they
\* were.
C15_AppendKeepsPayloadInPlace ==
    (/\ last.op = "save"
     /\ last.st = "ok"
     /\ last.call.mode = "a"
     /\ last.before.exists
     /\ hist.origin = "saved") =>
        /\ HeaderLen(file.bytes) = HeaderLen(last.before.bytes)
        /\ SubSeq(file.bytes, HeaderLen(last.before.bytes) + 1, Len(last.before.bytes))
              = SubSeq(last.before.bytes, HeaderLen(last.before.bytes) + 1,
                       Len(last.before.bytes))

\* A file whose descr starts with '>'.
BigEndianFile(f) ==
    /\ f.exists
    /\ Len(f.bytes) > 11
    /\ LET header == FgetsString(f.bytes)
           loc1   == Find(header, kDescr) + 9
       IN  loc1 < Len(header) /\ header[loc1 + 1] = Ord[">"]

\* C18: a load of a flat file whose descr declares big-endian data ends in an
\* error and returns no array, and an append onto such a file ends in an error
\* and leaves the file as it was.
C18_BigEndianRejected ==
    /\ (last.op = "load" /\ BigEndianFile(file)) =>
          (last.st \in {"throw", "abort"} /\ last.arr = NpArrayEmpty)
    /\ (last.op = "save" /\ last.call.mode = "a" /\ last.call.writable
        /\ BigEndianFile(last.before)) =>
          (last.st \in {"throw", "abort"} /\ file = last.before)

\* ----------------------------------------------------------- source machine
\* One streaming source, as npz_save_data makes it (cnpy.cpp lines 607-610), and
\* the commands the zip library sends it in any order.  zsrc.out are the bytes
\* the source has delivered since it was last opened (or made).
SourceItems ==
    {[dtype |-> "Int8", shape |-> <<3>>], [dtype |-> "Int8", shape |-> <<0>>],
     [dtype |-> "Double", shape |-> <<1, 5>>]}

\* The buffer lengths of the READ commands.
SourceReadLens == {1, 32, 80, 200}

SourceOpen ==
    /\ zsrc.op # "open"
    /\ zsrc' = [op |-> "open", cb |-> zipSourceOpen(zsrc.cb), out |-> <<>>,
                reopened |-> zsrc.reopened \/ zsrc.out # <<>>, len |-> 0, ret |-> 0,
                before |-> zsrc.cb, outBefore |-> Len(zsrc.out)]
    /\ UNCHANGED <<hdrVars, npyVars, arrVars, npzVars, cntVars>>

SourceRead(len) ==
    /\ \E r \in {zipSourceRead(zsrc.cb, len)} :
          zsrc' = [op |-> "read", cb |-> r.cb, out |-> zsrc.out \o r.out,
                   reopened |-> zsrc.reopened, len |-> len, ret |-> Len(r.out),
                   before |-> zsrc.cb, outBefore |-> Len(zsrc.out)]
    /\ UNCHANGED <<hdrVars, npyVars, arrVars, npzVars, cntVars>>

\* STAT, CLOSE or ERROR; ret is the size STAT reports, 0 for the others.
SourceOther(op) ==
    /\ zsrc.op \notin {"stat", "close", "error"}
    /\ zsrc' = [op |-> op, cb |-> zipSourceOther(zsrc.cb), out |-> zsrc.out,
                reopened |-> zsrc.reopened, len |-> 0,
                ret |-> IF op = "stat" THEN zipSourceStatSize(zsrc.cb) ELSE 0,
                before |-> zsrc.cb, outBefore |-> Len(zsrc.out)]
    /\ UNCHANGED <<hdrVars, npyVars, arrVars, npzVars, cntVars>>

InitSource ==
    /\ enc = NoEnc
    /\ IdleNpy
    /\ IdleArr
    /\ IdleNpz
    /\ IdleCnt
    /\ \E item \in SourceItems :
          \E cb \in {ZipSourceCallbackData(
                         create_npy_header(item.dtype, SizeOf[item.dtype], item.shape),
                         CallerData(1, DataSize(item.shape, SizeOf[item.dtype])),
                         DataSize(item.shape, SizeOf[item.dtype]))} :
             zsrc = [op |-> "init", cb |-> cb, out |-> <<>>, reopened |-> FALSE,
                     len |-> 0, ret |-> 0, before |-> cb, outBefore |-> 0]

NextSource ==
    \/ SourceOpen
    \/ \E len \in SourceReadLens : SourceRead(len)
    \/ \E op \in {"stat", "close", "error"} : SourceOther(op)

SpecSource == InitSource /\ [][NextSource]_vars

\* All the bytes of the entry: the header, then dataSize bytes of the data.
EntryBytes(cb) == cb.header \o SubSeq(cb.data, 1, cb.dataSize)

\* C16: since the last OPEN, whatever was read before it, every READ returns at
\* most the length asked for; the bytes delivered so far are a prefix of the
\* header followed by the data; a READ returns 0 only when all of them are
\* delivered, and once they are every READ returns 0; STAT, CLOSE and ERROR
\* leave the cursor and the header-done flag as they were.
C16_StreamingDelivery ==
    /\ zsrc.out = SubSeq(EntryBytes(zsrc.cb), 1, Len(zsrc.out))
    /\ Len(zsrc.out) <= Len(EntryBytes(zsrc.cb))
    /\ zsrc.op = "read" =>
          /\ zsrc.ret <= zsrc.len
          /\ Len(zsrc.out) = zsrc.outBefore + zsrc.ret
          /\ zsrc.ret = 0 <=> zsrc.outBefore = Len(EntryBytes(zsrc.cb))
    /\ zsrc.op \in {"stat", "close", "error"} =>
          /\ zsrc.cb.offset = zsrc.before.offset
          /\ zsrc.cb.headerIsDone = zsrc.before.headerIsDone
    /\ zsrc.op = "open" => (zsrc.cb.offset = 0 /\ ~zsrc.cb.headerIsDone)

\* After an OPEN that followed reads of an earlier pass: the whole entry of 120
\* bytes delivered again, and a READ that returns 0.
C16_Witness ==
    /\ zsrc.op = "read"
    /\ zsrc.reopened
    /\ zsrc.ret = 0
    /\ Len(zsrc.out) = 120
    /\ zsrc.out = EntryBytes(zsrc.cb)

\* ------------------------------------------------------------ count machine
\* The byte counts npy_save_data and npz_save_data compute from a shape and an
\* element size, in the integer types of the source.  A number is the sequence
\* of its base-256 digits, lowest first, without leading zeros: size_t keeps
\* eight of them, unsigned int and int four.
RECURSIVE Wide(_)
Wide(n) == IF n = 0 THEN <<>> ELSE <<n % 256>> \o Wide(n \div 256)

RECURSIVE Norm(_)
Norm(a) == IF a # <<>> /\ a[Len(a)] = 0 THEN Norm(SubSeq(a, 1, Len(a) - 1)) ELSE a

RECURSIVE WAdd(_, _, _)
WAdd(a, b, carry) ==
    IF a = <<>> /\ b = <<>> THEN Wide(carry)
    ELSE LET x == IF a = <<>> THEN 0 ELSE Head(a)
             y == IF b = <<>> THEN 0 ELSE Head(b)
         IN  <<(x + y + carry) % 256>>
             \o WAdd(IF a = <<>> THEN a ELSE Tail(a), IF b = <<>> THEN b ELSE Tail(b),
                     (x + y + carry) \div 256)

RECURSIVE WMulDigit(_, _, _)
WMulDigit(a, d, carry) ==
    IF a = <<>> THEN Wide(carry)
    ELSE <<(Head(a) * d + carry) % 256>>
         \o WMulDigit(Tail(a), d, (Head(a) * d + carry) \div 256)

RECURSIVE WMul(_, _)
WMul(a, b) ==
    IF b = <<>> THEN <<>>
    ELSE Norm(WAdd(WMulDigit(a, Head(b), 0), <<0>> \o WMul(a, Tail(b)), 0))

\* Conversion to an unsigned type of k bytes.
Trunc(a, k) == Norm(SubSeq(a, 1, Min(Len(a), k)))

\* Conversion of an int (four bytes, two's complement) to size_t: sign extension.
IntToSizeT(a) ==
    IF Len(a) = 4 /\ a[4] >= 128 THEN a \o <<255, 255, 255, 255>> ELSE a

\* std::accumulate(first, last, init, std::multiplies<size_t>()) with an
\* accumulator of k bytes, the type of init: every product is converted back.
RECURSIVE AccumulateWide(_, _, _)
AccumulateWide(shape, acc, k) ==
    IF shape = <<>> THEN acc
    ELSE AccumulateWide(Tail(shape), Trunc(WMul(acc, Wide(Head(shape))), k), k)

\* The bytes fwrite(data, elemSize, nels, fp) writes, nels accumulated from 1U
\* (cnpy.cpp lines 393-394).
FlatBytesWritten(shape, elemSz) ==
    Trunc(WMul(Wide(elemSz), AccumulateWide(shape, Wide(1), 4)), 8)

\* const int dataSize, accumulated from elemSize in size_t, as the size_t dSize
\* of ZipSourceCallbackData (lines 609-610).
SourceDataSize(shape, elemSz) ==
    IntToSizeT(Trunc(AccumulateWide(shape, Wide(elemSz), 8), 4))

\* zs->size = cbData->dataSize + cbData->header.size() (line 564), a zip_uint64_t.
SourceStatSize(shape, elemSz, headerLen) ==
    Trunc(WAdd(SourceDataSize(shape, elemSz), Wide(headerLen), 0), 8)

\* product(shape) * elemSz, as a number.
RECURSIVE ExactProduct(_, _)
ExactProduct(shape, acc) ==
    IF shape = <<>> THEN acc ELSE ExactProduct(Tail(shape), WMul(acc, Wide(Head(shape))))

MaxCountRank == 3
CountDims == {1, 3, 256, 32768, 65536}
CountShapes == UNION {[1..r -> CountDims] : r \in 1..MaxCountRank}
CountTypes == {"Int8", "Double"}

\* The computations of one save of an array of the shape and type Init drew.
CountBytes ==
    /\ cnt.op = "init"
    /\ cnt' = [cnt EXCEPT
                 !.op = "counted",
                 !.written = FlatBytesWritten(cnt.shape, cnt.elemSize),
                 !.dataSize = SourceDataSize(cnt.shape, cnt.elemSize),
                 !.stat = SourceStatSize(cnt.shape, cnt.elemSize, cnt.headerLen)]
    /\ UNCHANGED <<hdrVars, npyVars, arrVars, npzVars, srcVars>>

InitCount ==
    /\ enc = NoEnc
    /\ IdleNpy
    /\ IdleArr
    /\ IdleNpz
    /\ IdleSrc
    /\ \E dtp \in CountTypes : \E shape \in CountShapes :
          cnt = [op |-> "init", shape |-> shape, elemSize |-> SizeOf[dtp],
                 headerLen |-> Len(create_npy_header(dtp, SizeOf[dtp], shape)),
                 written |-> <<>>, dataSize |-> <<>>, stat |-> <<>>]

NextCount == CountBytes

SpecCount == InitCount /\ [][NextCount]_vars

\* C17: the payload bytes npy_save_data writes, and the data length
\* npz_save_data gives its streaming source, equal product(shape) * elemSize,
\* and the size STAT reports is that plus the header length.
C17_ByteCountExact ==
    cnt.op = "counted" =>
        /\ cnt.written = ExactProduct(cnt.shape, Wide(cnt.elemSize))
        /\ cnt.dataSize = ExactProduct(cnt.shape, Wide(cnt.elemSize))
        /\ cnt.stat = WAdd(ExactProduct(cnt.shape, Wide(cnt.elemSize)),
                           Wide(cnt.headerLen), 0)

====
